---- MODULE Spec2Model ----
(***************************************************************************)
(* ffmpeg-mix-service (app.py): the /mix and /clip request handlers, the   *)
(* timing they compute, the ffmpeg command they build, and the lifecycle   *)
(* of the per-request temporary directory.                                 *)
(*                                                                         *)
(* Times.  The wire carries integer milliseconds.  The handlers convert    *)
(* them to float seconds (_sec) and print them into the command with       *)
(* "%.3f".  A float second is modelled as an integer count of              *)
(* microseconds, so _sec multiplies by 1000 and Fmt3 rounds back to the    *)
(* thousandths that the engine reads.                                      *)
(***************************************************************************)
EXTENDS Integers, Sequences, FiniteSets

VARIABLES
    API_KEY,      \* configured key, "" when none is configured
    TAIL_MS,      \* configured tail, int(os.getenv("TAIL_MS") or "1000")
    pc,           \* position of the request in its handler
    req,          \* the validated request body and the X-API-Key header
    loc,          \* the handler's timing locals
    tmpdir,       \* "none", "exists" or "removed"
    started,      \* downloads that have been started
    downloaded,   \* downloads that have completed
    spawned,      \* external binaries that have been spawned
    probe,        \* what the probe process did
    video_has_audio,  \* "unset" until mix has assigned it, then "true" or "false"
    cmd,          \* the ffmpeg command of the request
    engine,       \* what the ffmpeg process did
    exc,          \* status code of the exception in flight, 0 when none
    response,     \* the response given to the caller
    background    \* "none", "pending" or "ran": the response's cleanup task

vars == <<API_KEY, TAIL_MS, pc, req, loc, tmpdir, started, downloaded, spawned,
          probe, video_has_audio, cmd, engine, exc, response, background>>

-----------------------------------------------------------------------------
(* Program constants *)

DEFAULT_TAIL_MS == 1000
EPS_S == 1000
SEEK_BACK_S == 2000000
DEFAULT_OUT_W == 1080
DEFAULT_OUT_H == 1920

(* Bounds of the explored inputs *)

MaxDurSteps == 2
MaxClipSteps == 1

Max(a, b) == IF a >= b THEN a ELSE b
Min(a, b) == IF a <= b THEN a ELSE b

TailMsValues == {-1, 0, 1, DEFAULT_TAIL_MS}
DurationMsValues == {1} \cup {2500 * k : k \in 1..MaxDurSteps}
FadeOutMsValues == {0, 1000, 60000}
VolumeValues == {18, 100}
ClipMsValues == {0, 1, 1999, 2000, 2001, 10000} \cup {13500 * k : k \in 1..MaxClipSteps}
ApiKeyValues == {"", "secret"}
HeaderValues == {"", "secret", "wrong"}
MediaLenValues == {2000, 9000}

-----------------------------------------------------------------------------
(* Pure helpers *)

\* ms / 1000.0, in microseconds
_sec(ms) == ms * 1000

\* "%.3f" of a non-negative float second: the nearest thousandth
Fmt3(s) == (s + 500) \div 1000

\* _check_api_key_value: TRUE when the call returns, FALSE when it raises 401
_check_api_key_value(api_key, x_api_key) ==
    IF api_key = "" THEN TRUE
    ELSE IF x_api_key = "" \/ x_api_key # api_key THEN FALSE
    ELSE TRUE

NoLoc ==
    [base_s |-> 0, tail_ms |-> 0, tail_s |-> 0, total_s |-> 0,
     fade_start_s |-> 0, fade_dur_s |-> 0,
     start_s |-> 0, dur_s |-> 0, fast_seek_s |-> 0, accurate_seek_s |-> 0]

\* MixTiming with the fade taken from the request, counted back from the end
MixTimingFadeFromRequest(r, tail_cfg) ==
    LET base_s  == Max(_sec(r.duration_ms), EPS_S)
        tail_ms == Max(tail_cfg, 1)
        tail_s  == Max(_sec(tail_ms), EPS_S)
        total_s == Max(base_s + tail_s, EPS_S)
    IN  [NoLoc EXCEPT !.base_s = base_s, !.tail_ms = tail_ms, !.tail_s = tail_s,
                      !.total_s = total_s,
                      !.fade_start_s = total_s - _sec(r.fade_out_ms),
                      !.fade_dur_s = _sec(r.fade_out_ms)]

\* the timing block of mix
MixTiming(r, tail_cfg) ==
    LET base_s  == Max(_sec(r.duration_ms), EPS_S)
        tail_ms == Max(tail_cfg, 1)
        tail_s  == Max(_sec(tail_ms), EPS_S)
        total_s == Max(base_s + tail_s, EPS_S)
    IN  [NoLoc EXCEPT !.base_s = base_s, !.tail_ms = tail_ms, !.tail_s = tail_s,
                      !.total_s = total_s,
                      !.fade_start_s = base_s, !.fade_dur_s = tail_s]

\* RangeInvalid letting an empty window through
RangeInvalidStrict(start_ms, end_ms) == end_ms < start_ms

\* the range check of clip: TRUE when the request is rejected
RangeInvalid(start_ms, end_ms) == end_ms <= start_ms

\* start_s and dur_s of clip
ClipWindow(start_ms, end_ms) ==
    [NoLoc EXCEPT !.start_s = _sec(start_ms), !.dur_s = _sec(end_ms - start_ms)]

\* ClipSeek without the clamp of the coarse seek at zero
ClipSeekNoClamp(l) ==
    LET fast == l.start_s - SEEK_BACK_S
    IN  [l EXCEPT !.fast_seek_s = fast, !.accurate_seek_s = l.start_s - fast]

\* the two-step seek of clip
ClipSeek(l) ==
    LET fast == Max(0, l.start_s - SEEK_BACK_S)
    IN  [l EXCEPT !.fast_seek_s = fast, !.accurate_seek_s = l.start_s - fast]

-----------------------------------------------------------------------------
(* The filter graph: a sequence of chains, each reading input pads or      *)
(* labels, applying its operations in order, and writing one label.        *)

Op(name, a, b) == [op |-> name, a |-> a, b |-> b]
Chain(ins, ops, out) == [ins |-> ins, ops |-> ops, out |-> out]

v_filter(l) ==
    Chain(<<"0:v">>,
          <<Op("trim", 0, Fmt3(l.base_s)),
            Op("setpts", 0, 0),
            Op("tpad", 0, Fmt3(l.tail_s)),
            Op("fade", Fmt3(l.fade_start_s), Fmt3(l.fade_dur_s))>>,
          "vout")

m_filter(l, music_volume) ==
    Chain(<<"1:a">>,
          <<Op("atrim", 0, Fmt3(l.total_s)),
            Op("asetpts", 0, 0),
            Op("volume", music_volume, 0),
            Op("afade", Fmt3(l.fade_start_s), Fmt3(l.fade_dur_s))>>,
          "m")

\* the a_filter of the voice branch
a_filter_voice(l, voice_volume) ==
    <<Chain(<<"2:a">>,
            <<Op("atrim", 0, Fmt3(l.base_s)),
              Op("asetpts", 0, 0),
              Op("volume", voice_volume, 0)>>,
            "v"),
      Chain(<<"m", "v">>,
            <<Op("amix", 2, 0), Op("atrim", 0, Fmt3(l.total_s))>>,
            "aout")>>

\* the a_filter of the native-audio branch
a_filter_native(l) ==
    <<Chain(<<"0:a">>,
            <<Op("atrim", 0, Fmt3(l.base_s)), Op("asetpts", 0, 0)>>,
            "a0"),
      Chain(<<"a0", "m">>,
            <<Op("amix", 2, 0), Op("atrim", 0, Fmt3(l.total_s))>>,
            "aout")>>

\* a_filter_music handing the music label on without the final trim
a_filter_music_untrimmed(l) ==
    <<Chain(<<"m">>, <<Op("anull", 0, 0)>>, "aout")>>

\* the tail of filter_complex in the music-only branch
a_filter_music(l) ==
    <<Chain(<<"m">>, <<Op("atrim", 0, Fmt3(l.total_s))>>, "aout")>>

\* MixBranch with the two voiceless branches exchanged
MixBranchSwapped(voice_url, has_audio) ==
    IF voice_url THEN "voice"
    ELSE IF has_audio THEN "music"
    ELSE "native"

\* which of the three branches mix takes
MixBranch(voice_url, has_audio) ==
    IF voice_url THEN "voice"
    ELSE IF has_audio THEN "native"
    ELSE "music"

NoCmd ==
    [bin |-> "", ss_in |-> -1, inputs |-> <<>>, ss_out |-> -1, t |-> -1,
     filter |-> <<>>, maps |-> <<>>]

\* the command of mix: filter_complex and argument vector of the chosen branch
MixCmd(l, r, has_audio) ==
    LET branch == MixBranch(r.voice_url, has_audio)
        a_filter == CASE branch = "voice"  -> a_filter_voice(l, r.voice_volume)
                      [] branch = "native" -> a_filter_native(l)
                      [] OTHER             -> a_filter_music(l)
        inputs == IF branch = "voice"
                  THEN <<"input.mp4", "music.in", "voice.in">>
                  ELSE <<"input.mp4", "music.in">>
    IN  [NoCmd EXCEPT !.bin = "ffmpeg",
                      !.inputs = inputs,
                      !.t = Fmt3(l.total_s),
                      !.filter = <<v_filter(l), m_filter(l, r.music_volume)>> \o a_filter,
                      !.maps = <<"vout", "aout">>]

\* the -vf chain of clip (mode cover_center)
ClipVf(r) ==
    Chain(<<"0:v">>,
          <<Op("scale", r.out_w, r.out_h), Op("crop", r.out_w, r.out_h),
            Op("setsar", 1, 0)>>,
          "out")

\* the command of clip
ClipCmd(l, r) ==
    [NoCmd EXCEPT !.bin = "ffmpeg",
                  !.ss_in = Fmt3(l.fast_seek_s),
                  !.inputs = <<"input.mp4">>,
                  !.ss_out = Fmt3(l.accurate_seek_s),
                  !.t = Fmt3(l.dur_s),
                  !.filter = <<ClipVf(r)>>,
                  !.maps = <<"0:v:0", "0:a?">>]

-----------------------------------------------------------------------------
(* The stream inspector.  A probe run is [spawn, rc, out]: whether the     *)
(* process could be started, its exit code, and what its stdout holds.     *)

ProbeOutValues == {"", "garbage", "not_object", "no_streams", "empty_streams", "one_stream"}

ProbeRuns ==
    {[spawn |-> FALSE, rc |-> 0, out |-> ""]}
    \cup {[spawn |-> TRUE, rc |-> c, out |-> o] : c \in {0, 1}, o \in ProbeOutValues}

NoProbe == [spawn |-> FALSE, rc |-> -1, out |-> ""]

\* json.loads(p.stdout or "{}") followed by bool(data.get("streams")):
\* "raise" when either raises
ParseStreams(out) ==
    CASE out = ""              -> "false"
      [] out = "garbage"       -> "raise"
      [] out = "not_object"    -> "raise"
      [] out = "no_streams"    -> "false"
      [] out = "empty_streams" -> "false"
      [] OTHER                 -> "true"

\* _has_audio_stream: "true", "false", or "raise" when the call raises
_has_audio_stream(p) ==
    IF ~p.spawn THEN "raise"
    ELSE IF p.rc # 0 THEN "true"
    ELSE IF ParseStreams(p.out) = "raise" THEN "true"
    ELSE ParseStreams(p.out)

-----------------------------------------------------------------------------
(* The external engine.  The handlers only see its exit code; what it      *)
(* writes follows the filters of the command: trim and atrim cut a stream  *)
(* at their end point, tpad appends its stop_duration, amix with           *)
(* duration=longest lasts as long as its longest input, and -t bounds      *)
(* every output stream.                                                    *)

OpLen(o, len) ==
    CASE o.op \in {"trim", "atrim"} -> Min(len, o.b)
      [] o.op = "tpad"              -> len + o.b
      [] OTHER                      -> len

RECURSIVE OpsLen(_, _)
OpsLen(ops, len) ==
    IF ops = <<>> THEN len ELSE OpsLen(Tail(ops), OpLen(Head(ops), len))

MaxOf(S) == CHOOSE x \in S : \A y \in S : y <= x

\* media: the length in ms of each input pad of the command
RECURSIVE LabelLen(_, _, _)
LabelLen(filter, label, media) ==
    IF label \in DOMAIN media THEN media[label]
    ELSE LET c == CHOOSE ch \in {filter[i] : i \in DOMAIN filter} : ch.out = label
         IN  OpsLen(c.ops,
                    MaxOf({LabelLen(filter, c.ins[i], media) : i \in DOMAIN c.ins}))

OutLen(c, label, media) == Min(c.t, LabelLen(c.filter, label, media))

NoEngine == [state |-> "none", rc |-> 0, src_video |-> 0, vlen |-> 0, alen |-> 0]

\* what a run of the command of mix leaves behind
MixEngineRun(c, rc, vl, ml, ol) ==
    LET media == [x \in {"0:v", "0:a", "1:a", "2:a"} |->
                     CASE x = "1:a" -> ml [] x = "2:a" -> ol [] OTHER -> vl]
    IN  [state |-> "exit", rc |-> rc, src_video |-> vl,
         vlen |-> IF rc = 0 THEN OutLen(c, "vout", media) ELSE 0,
         alen |-> IF rc = 0 THEN OutLen(c, "aout", media) ELSE 0]

\* what a run of the command of clip leaves behind
ClipEngineRun(c, rc, vl) ==
    LET left == Min(c.t, Max(0, vl - (c.ss_in + c.ss_out)))
    IN  [state |-> "exit", rc |-> rc, src_video |-> vl,
         vlen |-> IF rc = 0 THEN left ELSE 0,
         alen |-> IF rc = 0 THEN left ELSE 0]

-----------------------------------------------------------------------------
(* State *)

NoReq ==
    [op |-> "", x_api_key |-> "", duration_ms |-> 0, music_volume |-> 0,
     fade_out_ms |-> 0, voice_url |-> FALSE, voice_volume |-> 0,
     start_ms |-> 0, end_ms |-> 0, out_w |-> 0, out_h |-> 0]

NoResponse == [status |-> 0, artifact |-> FALSE]

\* _cleanup_dir leaving the directory in place
_cleanup_dir_noop(dir) == dir

\* shutil.rmtree(path, ignore_errors=True)
_cleanup_dir(dir) == IF dir = "exists" THEN "removed" ELSE dir

\* the inputs a request has to download
Required(r) ==
    IF r.op = "mix"
    THEN {"video", "music"} \cup (IF r.voice_url THEN {"voice"} ELSE {})
    ELSE {"video"}

Init ==
    /\ API_KEY \in ApiKeyValues
    /\ TAIL_MS \in TailMsValues
    /\ pc = "idle"
    /\ req = NoReq
    /\ loc = NoLoc
    /\ tmpdir = "none"
    /\ started = {}
    /\ downloaded = {}
    /\ spawned = {}
    /\ probe = NoProbe
    /\ video_has_audio = "unset"
    /\ cmd = NoCmd
    /\ engine = NoEngine
    /\ exc = 0
    /\ response = NoResponse
    /\ background = "none"

cfg == <<API_KEY, TAIL_MS>>

-----------------------------------------------------------------------------
(* Requests *)

\* a validated MixRequest reaches mix
MixRequest ==
    /\ pc = "idle"
    /\ \E k \in HeaderValues, d \in DurationMsValues, f \in FadeOutMsValues,
          mv \in VolumeValues, voice \in BOOLEAN :
          req' = [NoReq EXCEPT !.op = "mix", !.x_api_key = k, !.duration_ms = d,
                               !.music_volume = mv, !.fade_out_ms = f,
                               !.voice_url = voice, !.voice_volume = 100]
    /\ pc' = "mix_auth"
    /\ UNCHANGED <<cfg, loc, tmpdir, started, downloaded, spawned, probe,
                   video_has_audio, cmd, engine, exc, response, background>>

\* a validated ClipRequest reaches clip
ClipRequest ==
    /\ pc = "idle"
    /\ \E k \in HeaderValues, s \in ClipMsValues, e \in ClipMsValues :
          req' = [NoReq EXCEPT !.op = "clip", !.x_api_key = k, !.start_ms = s,
                               !.end_ms = e, !.out_w = DEFAULT_OUT_W,
                               !.out_h = DEFAULT_OUT_H]
    /\ pc' = "clip_auth"
    /\ UNCHANGED <<cfg, loc, tmpdir, started, downloaded, spawned, probe,
                   video_has_audio, cmd, engine, exc, response, background>>

-----------------------------------------------------------------------------
(* Steps shared by the two handlers *)

\* _check_api_key_value(x_api_key) at the head of mix and of clip
CheckApiKey ==
    /\ pc \in {"mix_auth", "clip_auth"}
    /\ IF _check_api_key_value(API_KEY, req.x_api_key)
       THEN /\ pc' = IF pc = "mix_auth" THEN "mix_timing" ELSE "clip_range"
            /\ exc' = exc
       ELSE /\ pc' = "raised"
            /\ exc' = 401
    /\ UNCHANGED <<cfg, req, loc, tmpdir, started, downloaded, spawned, probe,
                   video_has_audio, cmd, engine, response, background>>

DownloadOutcomes == {"ok", "too_large", "error"}

\* where a handler goes after a download
AfterDownload(at, r) ==
    CASE at = "mix_dl_video" -> "mix_dl_music"
      [] at = "mix_dl_music" -> IF r.voice_url THEN "mix_dl_voice" ELSE "mix_probe"
      [] at = "mix_dl_voice" -> "mix_probe"
      [] OTHER               -> "clip_cmd"

DownloadName(at) ==
    CASE at = "mix_dl_music" -> "music"
      [] at = "mix_dl_voice" -> "voice"
      [] OTHER               -> "video"

\* await _download_to(path, url) inside the try block
DownloadTo ==
    /\ pc \in {"mix_dl_video", "mix_dl_music", "mix_dl_voice", "clip_dl_video"}
    /\ started' = started \cup {DownloadName(pc)}
    /\ \E outcome \in DownloadOutcomes :
          CASE outcome = "ok" ->
                  /\ downloaded' = downloaded \cup {DownloadName(pc)}
                  /\ pc' = AfterDownload(pc, req)
                  /\ exc' = exc
            [] outcome = "too_large" ->
                  /\ downloaded' = downloaded
                  /\ pc' = "except_http"
                  /\ exc' = 413
            [] OTHER ->
                  /\ downloaded' = downloaded
                  /\ pc' = "except_any"
                  /\ exc' = exc
    /\ UNCHANGED <<cfg, req, loc, tmpdir, spawned, probe, video_has_audio, cmd,
                   engine, response, background>>

\* RunFails ignoring the exit code
RunFailsNever(rc) == FALSE

\* the returncode test of _run: TRUE when it raises HTTPException(500)
RunFails(rc) == rc # 0

\* _run(cmd): the process cannot be started, or exits with rc
Run ==
    /\ pc = "run"
    /\ \/ /\ engine' = [NoEngine EXCEPT !.state = "spawn_error"]
          /\ spawned' = spawned
          /\ pc' = "except_any"
          /\ exc' = exc
       \/ \E rc \in {0, 1}, vl \in MediaLenValues, ml \in MediaLenValues,
             ol \in MediaLenValues :
             /\ engine' = IF req.op = "mix"
                          THEN MixEngineRun(cmd, rc, vl, ml, ol)
                          ELSE ClipEngineRun(cmd, rc, vl)
             /\ spawned' = spawned \cup {"ffmpeg"}
             /\ IF RunFails(rc)
                THEN pc' = "except_http" /\ exc' = 500
                ELSE pc' = "return" /\ exc' = exc
    /\ UNCHANGED <<cfg, req, loc, tmpdir, started, downloaded, probe,
                   video_has_audio, cmd, response, background>>

\* return FileResponse(out_path, background=BackgroundTask(_cleanup_dir, tmpdir))
ReturnFileResponse ==
    /\ pc = "return"
    /\ response' = [status |-> 200, artifact |-> TRUE]
    /\ background' = "pending"
    /\ pc' = "sent"
    /\ UNCHANGED <<cfg, req, loc, tmpdir, started, downloaded, spawned, probe,
                   video_has_audio, cmd, engine, exc>>

\* the response's background task, run once the response has been sent
BackgroundTask ==
    /\ pc = "sent"
    /\ background = "pending"
    /\ tmpdir' = _cleanup_dir(tmpdir)
    /\ background' = "ran"
    /\ pc' = "done"
    /\ UNCHANGED <<cfg, req, loc, started, downloaded, spawned, probe,
                   video_has_audio, cmd, engine, exc, response>>

\* except HTTPException: _cleanup_dir(tmpdir); raise
ExceptHTTPException ==
    /\ pc = "except_http"
    /\ tmpdir' = _cleanup_dir(tmpdir)
    /\ pc' = "raised"
    /\ UNCHANGED <<cfg, req, loc, started, downloaded, spawned, probe,
                   video_has_audio, cmd, engine, exc, response, background>>

\* except Exception: _cleanup_dir(tmpdir); raise HTTPException(500)
ExceptException ==
    /\ pc = "except_any"
    /\ tmpdir' = _cleanup_dir(tmpdir)
    /\ exc' = 500
    /\ pc' = "raised"
    /\ UNCHANGED <<cfg, req, loc, started, downloaded, spawned, probe,
                   video_has_audio, cmd, engine, response, background>>

\* the HTTPException handler of the app: a JSON error response
http_exception_handler ==
    /\ pc = "raised"
    /\ response' = [status |-> exc, artifact |-> FALSE]
    /\ pc' = "done"
    /\ UNCHANGED <<cfg, req, loc, tmpdir, started, downloaded, spawned, probe,
                   video_has_audio, cmd, engine, exc, background>>

-----------------------------------------------------------------------------
(* mix *)

\* the timing block and tempfile.mkdtemp
MixPrepare ==
    /\ pc = "mix_timing"
    /\ loc' = MixTiming(req, TAIL_MS)
    /\ tmpdir' = "exists"
    /\ pc' = "mix_dl_video"
    /\ UNCHANGED <<cfg, req, started, downloaded, spawned, probe,
                   video_has_audio, cmd, engine, exc, response, background>>

\* video_has_audio = _has_audio_stream(in_video)
MixProbe ==
    /\ pc = "mix_probe"
    /\ \E p \in ProbeRuns :
          /\ probe' = p
          /\ spawned' = IF p.spawn THEN spawned \cup {"ffprobe"} ELSE spawned
          /\ IF _has_audio_stream(p) = "raise"
             THEN /\ pc' = "except_any"
                  /\ video_has_audio' = video_has_audio
             ELSE /\ pc' = "mix_cmd"
                  /\ video_has_audio' = _has_audio_stream(p)
    /\ UNCHANGED <<cfg, req, loc, tmpdir, started, downloaded, cmd, engine, exc,
                   response, background>>

\* the filters and the argument vector of the branch taken
MixBuild ==
    /\ pc = "mix_cmd"
    /\ cmd' = MixCmd(loc, req, video_has_audio = "true")
    /\ pc' = "run"
    /\ UNCHANGED <<cfg, req, loc, tmpdir, started, downloaded, spawned, probe,
                   video_has_audio, engine, exc, response, background>>

-----------------------------------------------------------------------------
(* clip *)

\* the range check, start_s and dur_s, and tempfile.mkdtemp
ClipPrepare ==
    /\ pc = "clip_range"
    /\ IF RangeInvalid(req.start_ms, req.end_ms)
       THEN /\ exc' = 400
            /\ pc' = "raised"
            /\ UNCHANGED <<loc, tmpdir>>
       ELSE /\ loc' = ClipWindow(req.start_ms, req.end_ms)
            /\ tmpdir' = "exists"
            /\ pc' = "clip_dl_video"
            /\ exc' = exc
    /\ UNCHANGED <<cfg, req, started, downloaded, spawned, probe,
                   video_has_audio, cmd, engine, response, background>>

\* the reframing filter, the two-step seek and the argument vector
ClipBuild ==
    /\ pc = "clip_cmd"
    /\ loc' = ClipSeek(loc)
    /\ cmd' = ClipCmd(ClipSeek(loc), req)
    /\ pc' = "run"
    /\ UNCHANGED <<cfg, req, tmpdir, started, downloaded, spawned, probe,
                   video_has_audio, engine, exc, response, background>>

-----------------------------------------------------------------------------

Handler ==
    \/ CheckApiKey
    \/ MixPrepare
    \/ DownloadTo
    \/ MixProbe
    \/ MixBuild
    \/ ClipPrepare
    \/ ClipBuild
    \/ Run
    \/ ReturnFileResponse
    \/ BackgroundTask
    \/ ExceptHTTPException
    \/ ExceptException
    \/ http_exception_handler

Next == MixRequest \/ ClipRequest \/ Handler

Spec == Init /\ [][Next]_vars

\* Every step of a handler that has started is eventually taken: downloads
\* run under HTTP_TIMEOUT_SEC, the child processes exit, and the server runs
\* a response's background task after sending it.
FairSpec == Spec /\ WF_vars(Handler)

-----------------------------------------------------------------------------
(* Properties *)

MixBuilt == req.op = "mix" /\ cmd.bin = "ffmpeg"
ClipBuilt == req.op = "clip" /\ cmd.bin = "ffmpeg"
KeyAccepted == API_KEY = "" \/ req.x_api_key = API_KEY

\* the chain of a filter graph that writes a label
ChainOf(filter, label) ==
    CHOOSE ch \in {filter[i] : i \in DOMAIN filter} : ch.out = label

\* the operation of that name in a chain
OpOf(ch, name) ==
    CHOOSE o \in {ch.ops[i] : i \in DOMAIN ch.ops} : o.op = name

HasOp(filter, name) ==
    \E i \in DOMAIN filter : \E j \in DOMAIN filter[i].ops : filter[i].ops[j].op = name

\* the chains whose output reaches a label
RECURSIVE Upstream(_, _)
Upstream(filter, label) ==
    IF \A i \in DOMAIN filter : filter[i].out # label THEN {}
    ELSE LET c == ChainOf(filter, label)
         IN  {c} \cup UNION {Upstream(filter, c.ins[i]) : i \in DOMAIN c.ins}

\* the input pads a label is made from
Pads(filter, label) ==
    {p \in {"0:v", "0:a", "1:a", "2:a"} :
        \E c \in Upstream(filter, label) : \E i \in DOMAIN c.ins : c.ins[i] = p}

\* C1: once a request has created its temporary directory, the directory is
\* eventually removed on every path; an error is never reported while the
\* directory is still there, a success response always carries the cleanup
\* task, and no finished request leaves the directory in place.
C1_TmpdirReleased ==
    /\ [](response.status >= 400 => tmpdir # "exists")
    /\ [](response.artifact => background # "none")
    /\ [](pc = "done" => tmpdir # "exists")
    /\ ((tmpdir = "exists") ~> (tmpdir = "removed"))

C1_Witness ==
    /\ pc = "done"
    /\ response.artifact
    /\ background = "ran"
    /\ tmpdir = "removed"

\* C2 as stated: a /clip request with end_ms <= start_ms is answered 400, and
\* never has a temporary directory, a download or a spawned process.
C2_Original ==
    (req.op = "clip" /\ req.end_ms <= req.start_ms) =>
        /\ tmpdir = "none"
        /\ started = {}
        /\ spawned = {}
        /\ pc \notin {"clip_dl_video", "clip_cmd", "run", "return", "sent"}
        /\ pc = "done" => response.status = 400

\* C2 amended: such a request is answered 400 when it passes the API-key
\* check and 401 when it does not; in both cases it never has a temporary
\* directory, a download or a spawned process.
C2_RejectedBeforeProvisioning ==
    (req.op = "clip" /\ req.end_ms <= req.start_ms) =>
        /\ tmpdir = "none"
        /\ started = {}
        /\ spawned = {}
        /\ pc \notin {"clip_dl_video", "clip_cmd", "run", "return", "sent"}
        /\ pc = "done" => response.status = IF KeyAccepted THEN 400 ELSE 401

C2_Witness ==
    /\ req.op = "clip"
    /\ req.end_ms = req.start_ms
    /\ pc = "done"
    /\ response.status = 400

\* C3: an artifact is returned only after the engine was started with every
\* required download complete and exited with code 0; a finished request
\* whose engine did not exit with 0, or that lacks a download, has an error
\* response and no artifact.
C3_ArtifactOnlyOnSuccess ==
    /\ response.artifact =>
          /\ response.status = 200
          /\ "ffmpeg" \in spawned
          /\ engine.state = "exit"
          /\ engine.rc = 0
    /\ "ffmpeg" \in spawned => Required(req) \subseteq downloaded
    /\ (pc = "done" /\ ~(engine.state = "exit" /\ engine.rc = 0)) =>
          /\ response.status >= 400
          /\ ~response.artifact
    /\ pc \in {"sent", "done"} => (response.artifact <=> response.status = 200)

C3_Witness ==
    /\ req.op = "mix"
    /\ pc = "done"
    /\ engine.state = "exit"
    /\ engine.rc # 0
    /\ response.status = 500
    /\ ~response.artifact

\* C4: the audio recipe of /mix is decided by (voice present, video has audio)
\* alone: with a voice the output audio is made from music and voice through
\* a mix; without a voice and with native audio, from native audio and music
\* through a mix; with neither, from music alone and the graph holds no amix.
C4_RecipeByPresence ==
    MixBuilt =>
        LET made == Pads(cmd.filter, "aout")
            mixes == HasOp(cmd.filter, "amix")
        IN  /\ req.voice_url => (made = {"1:a", "2:a"} /\ mixes)
            /\ (~req.voice_url /\ video_has_audio = "true") =>
                   (made = {"0:a", "1:a"} /\ mixes)
            /\ (~req.voice_url /\ video_has_audio = "false") =>
                   (made = {"1:a"} /\ ~mixes)
            /\ Len(cmd.inputs) = IF req.voice_url THEN 3 ELSE 2

C4_Witness ==
    /\ MixBuilt
    /\ ~req.voice_url
    /\ video_has_audio = "false"
    /\ Pads(cmd.filter, "aout") = {"1:a"}

\* C5 as stated: for every positive duration_ms and every non-negative
\* TAIL_MS, 0 included, the duration bound given to the engine is
\* duration_ms + TAIL_MS milliseconds exactly, and at least duration_ms.
C5_Original ==
    (MixBuilt /\ TAIL_MS >= 0) =>
        /\ cmd.t = req.duration_ms + TAIL_MS
        /\ cmd.t >= req.duration_ms

\* C6: whatever fade_out_ms is, the music fade starts at or after 0 and ends
\* at or before the total; with a configured tail of at least 1 ms it is
\* exactly [duration_ms, duration_ms + TAIL_MS].
C6_FadeWindowInsideTotal ==
    MixBuilt =>
        LET f == OpOf(ChainOf(cmd.filter, "m"), "afade")
        IN  /\ f.a >= 0
            /\ f.a + f.b <= cmd.t
            /\ TAIL_MS >= 1 =>
                  /\ f.a = req.duration_ms
                  /\ f.a + f.b = req.duration_ms + TAIL_MS
                  /\ cmd.t = req.duration_ms + TAIL_MS

C6_Witness ==
    /\ MixBuilt
    /\ req.voice_url
    /\ req.duration_ms = 5000
    /\ TAIL_MS = 1000
    /\ req.fade_out_ms > cmd.t
    /\ cmd.t = 6000
    /\ OpOf(ChainOf(cmd.filter, "m"), "afade") = Op("afade", 5000, 1000)

\* C7: the coarse seek of /clip is max(0, start - 2000 ms), the accurate seek
\* is start minus the coarse seek, both are non-negative, the accurate seek
\* is at most 2000 ms, they add up to start, and the extraction length is
\* end - start; start 10000, end 13500 gives 8.000, 2.000 and 3.500.
C7_TwoStepSeek ==
    ClipBuilt =>
        /\ cmd.ss_in = Max(0, req.start_ms - 2000)
        /\ cmd.ss_out = req.start_ms - cmd.ss_in
        /\ cmd.ss_in >= 0
        /\ cmd.ss_out >= 0
        /\ cmd.ss_out <= 2000
        /\ cmd.ss_in + cmd.ss_out = req.start_ms
        /\ cmd.t = req.end_ms - req.start_ms
        /\ (req.start_ms = 10000 /\ req.end_ms = 13500) =>
              (cmd.ss_in = 8000 /\ cmd.ss_out = 2000 /\ cmd.t = 3500)

C7_Witness ==
    /\ ClipBuilt
    /\ req.start_ms = 10000
    /\ req.end_ms = 13500
    /\ cmd.ss_in = 8000
    /\ cmd.ss_out = 2000
    /\ cmd.t = 3500

\* C8: in every recipe of /mix the chain that writes the output audio ends
\* with a trim to the total, the duration bound of the command is that same
\* total, no audio feeding the output is trimmed to more than the total, and
\* the audio the engine writes is never longer than the total.
C8_AudioTrimmedToTotal ==
    MixBuilt =>
        LET out == ChainOf(cmd.filter, "aout")
            total == Fmt3(loc.total_s)
        IN  /\ out.ops[Len(out.ops)] = Op("atrim", 0, total)
            /\ cmd.t = total
            /\ \A c \in Upstream(cmd.filter, "aout") : \A i \in DOMAIN c.ops :
                  c.ops[i].op = "atrim" => (c.ops[i].a = 0 /\ c.ops[i].b <= total)
            /\ (engine.state = "exit" /\ engine.rc = 0) => engine.alen <= total

C8_Witness ==
    /\ MixBuilt
    /\ ~req.voice_url
    /\ video_has_audio = "false"
    /\ engine.state = "exit"
    /\ engine.rc = 0
    /\ engine.alen = cmd.t

\* C9 as stated: the stream inspector never propagates an error; it answers
\* false only after a probe that exited with 0 and printed an empty or
\* missing stream list, and true whenever the probe exits non-zero or its
\* output cannot be parsed.
C9_Original ==
    probe # NoProbe =>
        /\ video_has_audio # "unset"
        /\ video_has_audio = "false" =>
              (probe.spawn /\ probe.rc = 0
                 /\ probe.out \in {"", "no_streams", "empty_streams"})
        /\ (probe.rc # 0 \/ probe.out \in {"garbage", "not_object"}) =>
              video_has_audio = "true"

\* C10 as stated: the video is trimmed to base, padded by tail with its last
\* frame and faded over [base, base + tail], the same window as the music
\* fade, and the video written is as long as the duration bound whatever the
\* length of the source video.
C10_Original ==
    (MixBuilt /\ engine.state = "exit" /\ engine.rc = 0) =>
        LET v == ChainOf(cmd.filter, "vout")
            m == ChainOf(cmd.filter, "m")
            base == Fmt3(loc.base_s)
            tail == Fmt3(loc.tail_s)
        IN  /\ v.ops[1] = Op("trim", 0, base)
            /\ OpOf(v, "tpad") = Op("tpad", 0, tail)
            /\ v.ops[Len(v.ops)] = Op("fade", base, tail)
            /\ OpOf(m, "afade").a = OpOf(v, "fade").a
            /\ OpOf(m, "afade").b = OpOf(v, "fade").b
            /\ engine.vlen = cmd.t

====
